---- MODULE Spec2Model ----
(***************************************************************************)
(* Model of qiskit_aqua/utils/circuit_cache.py: the module-level circuit   *)
(* cache (qobjs, mappings), cache_circuit, load_qobj_from_cache,           *)
(* try_loading_cache_from_file and clear_cache.                            *)
(*                                                                         *)
(* Python lists are sequences read with 0-based indices through At, Ins    *)
(* and Slice.  A Python exception is the err field of an operation's       *)
(* outcome; the store fields of the outcome are the module globals at the  *)
(* moment the exception left the function.                                 *)
(***************************************************************************)
EXTENDS Integers, Sequences, FiniteSets, TLC

VARIABLES
    qobjs,              \* global qobjs: None, or the list of cached chunks
    mappings,           \* global mappings: None, or a list of references into mheap
    mheap,              \* the per-chunk mapping lists, as objects (two chunks may share one)
    try_reusing_qobjs,  \* global try_reusing_qobjs
    naughty_mode,       \* global naughty_mode
    cache_file,         \* global cache_file: TRUE when a file name is configured
    disk,               \* what the cache file holds
    last,               \* the last call: its name, arguments and outcome
    nops,               \* number of calls made so far
    pending,            \* MatchSpec: the insert still to be made
    procs,              \* ConcSpec: the two callers inside load_qobj_from_cache
    held,               \* HeldSpec: a job that an earlier call returned, as its caller sees it
    expectation,        \* ExpSpec: an AerPauliExpectation object
    composition         \* CompSpec: an OpComposition object

vars == <<qobjs, mappings, mheap, try_reusing_qobjs, naughty_mode, cache_file,
          disk, last, nops, pending, procs, held, expectation, composition>>

-----------------------------------------------------------------------------
(* Bounds *)

MaxOps == 3
MaxChunks == 2
MaxCircs == 2
MaxGates == 3
MaxInstrs == 3

-----------------------------------------------------------------------------
(* Python values *)

None == [none |-> TRUE, v |-> <<>>]
Some(x) == [none |-> FALSE, v |-> x]

At(s, i) == s[i + 1]

\* list.insert(i, x) for i >= 0: an index past the end appends
Ins(s, i, x) ==
    LET k == IF i > Len(s) THEN Len(s) ELSE i
    IN  SubSeq(s, 1, k) \o <<x>> \o SubSeq(s, k + 1, Len(s))

\* s[0:n]
Slice(s, n) == SubSeq(s, 1, IF n > Len(s) THEN Len(s) ELSE n)

Range(s) == {s[i] : i \in DOMAIN s}

RECURSIVE SumSeq(_)
SumSeq(s) == IF s = <<>> THEN 0 ELSE Head(s) + SumSeq(Tail(s))

RECURSIVE SeqsUpTo(_, _)
SeqsUpTo(S, n) ==
    IF n = 0 THEN {<<>>}
    ELSE LET shorter == SeqsUpTo(S, n - 1)
         IN  shorter \cup {Append(s, x) : s \in {t \in shorter : Len(t) = n - 1}, x \in S}

-----------------------------------------------------------------------------
(* Circuits (uncompiled) and qobjs (compiled) *)

\* input_circuit.regs of every circuit of the model, in declaration order
regs ==
    << [name |-> "q", size |-> 1, quantum |-> TRUE],
       [name |-> "r", size |-> 1, quantum |-> TRUE],
       [name |-> "c", size |-> 2, quantum |-> FALSE] >>

Gate(name, arg, param) ==
    [name |-> name, arg |-> arg, param |-> param, composite |-> FALSE, list |-> <<>>]

CompositeGate(list) ==
    [name |-> "composite", arg |-> <<>>, param |-> <<>>, composite |-> TRUE, list |-> list]

Instr(name, qubits, has_params, params) ==
    [name |-> name, qubits |-> qubits, has_params |-> has_params, params |-> params]

Experiment(name, instructions) ==
    [header |-> [name |-> name, has_qasm |-> TRUE], instructions |-> instructions]

Circuit(name, data) == [name |-> name, data |-> data]

IsQuantum(regname) == \E i \in DOMAIN regs : regs[i].name = regname /\ regs[i].quantum

qreg_sizes ==
    LET q == SelectSeq(regs, LAMBDA reg : reg.quantum)
    IN  [i \in DOMAIN q |-> q[i].size]

\* {name: sum(qreg_sizes[0:i]) for i, name in enumerate(input_circuit.regs)}
qreg_indeces ==
    [name \in {regs[i].name : i \in DOMAIN regs} |->
        LET i == CHOOSE j \in DOMAIN regs : regs[j].name = name
        IN  SumSeq(Slice(qreg_sizes, i - 1))]

\* [qubit + qreg_indeces[reg.name] for reg, qubit in regs if isinstance(reg, QuantumRegister)]
Qubits(gate) ==
    LET quantum == SelectSeq(gate.arg, LAMBDA a : IsQuantum(a[1]))
    IN  [i \in DOMAIN quantum |-> quantum[i][2] + qreg_indeces[quantum[i][1]]]

\* gate_type + qubits.__str__(): the key of a gate. Gate names hold no bracket, so the
\* concatenated string determines the pair and the pair stands for it.
type_and_qubits(name, qubits) == <<name, qubits>>

RECURSIVE raw_gates(_)
raw_gates(data) ==
    IF data = <<>> THEN <<>>
    ELSE (IF Head(data).composite THEN Head(data).list ELSE <<Head(data)>>)
         \o raw_gates(Tail(data))

\* getattr(compiled_gate, 'params', [])
ParamsOf(compiled_gate) == IF compiled_gate.has_params THEN compiled_gate.params ELSE <<>>

-----------------------------------------------------------------------------
(* cache_circuit: the mapping of one circuit *)

RECURSIVE build_op_graph(_, _, _)
build_op_graph(raw, i, g) ==
    IF i >= Len(raw) THEN g
    ELSE LET k == type_and_qubits(At(raw, i).name, Qubits(At(raw, i)))
         IN  build_op_graph(raw, i + 1,
                 [s \in DOMAIN g \cup {k} |->
                     (IF s \in DOMAIN g THEN g[s] ELSE <<>>)
                     \o (IF s = k THEN <<i>> ELSE <<>>)])

NoGraph == [s \in {} |-> <<>>]

op_graph(raw) == build_op_graph(raw, 0, NoGraph)

\* a queue with its last index taken instead of its first
PopLast(queue) ==
    [index |-> queue[Len(queue)], rest |-> SubSeq(queue, 1, Len(queue) - 1)]

\* op_graph[type_and_qubits].pop(0)
Pop0(queue) == [index |-> Head(queue), rest |-> Tail(queue)]

\* the mapping with the index put in front
MapGateFront(mapping, j, index, compiled_gate, qubits, uncompiled_gate) ==
    <<index>> \o mapping

\* the mapping with the gates without parameters skipped
MapGateSkipNoParams(mapping, j, index, compiled_gate, qubits, uncompiled_gate) ==
    IF uncompiled_gate.param = <<>> THEN mapping
    ELSE Ins(mapping, j, index)

\* lines 117-119: mapping.insert(compiled_gate_index, uncompiled_gate_index)
MapGate(mapping, j, index, compiled_gate, qubits, uncompiled_gate) ==
    IF compiled_gate.name = uncompiled_gate.name /\ compiled_gate.qubits = qubits
    THEN Ins(mapping, j, index)
    ELSE mapping

RECURSIVE match_scan(_, _, _, _)
match_scan(instructions, raw, j, acc) ==
    IF j >= Len(instructions) \/ acc.err # "ok" THEN acc
    ELSE LET compiled_gate == At(instructions, j)
             k == type_and_qubits(compiled_gate.name, compiled_gate.qubits)
         IN  IF k \notin DOMAIN acc.g
             THEN [acc EXCEPT !.err = "KeyError"]
             ELSE IF Len(acc.g[k]) > 0
             THEN LET popped == Pop0(acc.g[k])
                      uncompiled_gate == At(raw, popped.index)
                  IN  match_scan(instructions, raw, j + 1,
                          [g |-> [acc.g EXCEPT ![k] = popped.rest],
                           mapping |-> MapGate(acc.mapping, j, popped.index, compiled_gate,
                                               Qubits(uncompiled_gate), uncompiled_gate),
                           err |-> "ok"])
             ELSE [acc EXCEPT !.err = "extra in qobj"]

\* the check after the scan left out
NoLeftOver(g) == FALSE

\* lines 123-125: some operation of the circuit was not matched
LeftOver(g) == \E k \in DOMAIN g : Len(g[k]) > 0

\* lines 93-125 for one circuit: stored tells whether line 122 was reached
match(input_circuit, experiment) ==
    LET raw == raw_gates(input_circuit.data)
        scan == match_scan(experiment.instructions, raw, 0,
                    [g |-> op_graph(raw), mapping |-> <<>>, err |-> "ok"])
    IN  IF scan.err # "ok"
        THEN [mapping |-> scan.mapping, stored |-> FALSE, err |-> scan.err]
        ELSE [mapping |-> scan.mapping, stored |-> TRUE,
              err |-> IF LeftOver(scan.g) THEN "extra in circuit" ELSE "ok"]

-----------------------------------------------------------------------------
(* cache_circuit *)

\* mappings[chunk][circ_num] = mapping, on the list object that mappings[chunk] refers to
SetMapping(h, ref, circ_num, mapping) ==
    [h EXCEPT ![ref] = [@ EXCEPT ![circ_num + 1] = mapping]]

\* del qobjs[chunk].experiments[circ_num].header.compiled_circuit_qasm
DelQasm(q, chunk, circ_num) ==
    [q EXCEPT ![chunk + 1].experiments[circ_num + 1].header.has_qasm = FALSE]

\* the body of the loop of line 87 for circuit circ_num and the circuits after it
RECURSIVE cache_loop(_, _, _, _, _)
cache_loop(st, qobj, circuits, chunk, circ_num) ==
    IF circ_num >= Len(circuits) THEN st
    ELSE IF chunk >= Len(st.q) THEN [st EXCEPT !.err = "IndexError"]
    ELSE IF circ_num >= Len(At(st.q, chunk).experiments)
    THEN [st EXCEPT !.err = "IndexError"]
    ELSE IF ~At(At(st.q, chunk).experiments, circ_num).header.has_qasm
    THEN [st EXCEPT !.err = "AttributeError"]
    ELSE LET q1 == DelQasm(st.q, chunk, circ_num)
             r == match(At(circuits, circ_num), At(qobj.experiments, circ_num))
             h1 == IF r.stored
                   THEN SetMapping(st.h, At(st.m, chunk), circ_num, r.mapping)
                   ELSE st.h
         IN  IF r.stored /\ (chunk >= Len(st.m)
                             \/ circ_num >= Len(st.h[At(st.m, chunk)]))
             THEN [q |-> q1, m |-> st.m, h |-> st.h, err |-> "IndexError"]
             ELSE IF r.err # "ok"
             THEN [q |-> q1, m |-> st.m, h |-> h1, err |-> r.err]
             ELSE cache_loop([q |-> q1, m |-> st.m, h |-> h1, err |-> "ok"],
                             qobj, circuits, chunk, circ_num + 1)

\* lines 80-86: the new chunk goes in with list.insert
cache_insert(q, m, h, qobj, circuits, chunk) ==
    [q |-> Ins(q, chunk, qobj),
     m |-> Ins(m, chunk, Len(h) + 1),
     h |-> Append(h, [i \in 1..Len(circuits) |-> <<>>]),
     err |-> "ok"]

NoFile ==
    [exists |-> FALSE, readable |-> FALSE, keys |-> {},
     qobjs |-> <<>>, mappings |-> <<>>, mheap |-> <<>>]

\* the file with the first chunk alone
PickledFirst(q, m, h) ==
    [exists |-> TRUE, readable |-> TRUE, keys |-> {"qobjs", "mappings"},
     qobjs |-> SubSeq(q, 1, 1), mappings |-> SubSeq(m, 1, 1), mheap |-> h]

\* pickle.dump({'qobjs': qobj_dicts, 'mappings': mappings}): pickle keeps the sharing
\* between the mapping lists, so the blob holds the references and the list objects
Pickled(q, m, h) ==
    [exists |-> TRUE, readable |-> TRUE, keys |-> {"qobjs", "mappings"},
     qobjs |-> q, mappings |-> m, mheap |-> h]

\* a call that raised leaving the cache unset
cache_result_unset_on_error(S, st) ==
    IF st.err # "ok"
    THEN [qobjs |-> None, mappings |-> None, mheap |-> <<>>, disk |-> S.disk, err |-> st.err]
    ELSE [qobjs |-> Some(st.q), mappings |-> Some(st.m), mheap |-> st.h,
          disk |-> IF cache_file THEN Pickled(st.q, st.m, st.h) ELSE S.disk,
          err |-> st.err]

\* lines 126-131 and the globals the call leaves: st is the state after the loop
cache_result(S, st) ==
    [qobjs |-> Some(st.q), mappings |-> Some(st.m), mheap |-> st.h,
     disk |-> IF st.err = "ok" /\ cache_file
              THEN Pickled(st.q, st.m, st.h) ELSE S.disk,
     err |-> st.err]

\* the whole of cache_circuit, from the globals S = [qobjs, mappings, mheap, disk]
cache_circuit(S, qobj, circuits, chunk) ==
    cache_result(S, cache_loop(cache_insert(IF S.qobjs.none THEN <<>> ELSE S.qobjs.v,
                                            IF S.mappings.none THEN <<>> ELSE S.mappings.v,
                                            S.mheap, qobj, circuits, chunk),
                               qobj, circuits, chunk, 0))

-----------------------------------------------------------------------------
(* try_loading_cache_from_file *)

\* the qobj rebuilt with its first experiment alone
FromDictFirstExperiment(qobj_dict) == [experiments |-> SubSeq(qobj_dict.experiments, 1, 1)]

\* Qobj.from_dict(qobj_to_dict(qob)) rebuilds the qobj field by field
FromDict(qobj_dict) == [experiments |-> qobj_dict.experiments]

\* a missing cache file taken for an empty cache
try_loading_missing_file_empty(S) ==
    IF ~(S.qobjs.none /\ cache_file) THEN S
    ELSE IF ~disk.exists THEN [S EXCEPT !.qobjs = Some(<<>>)]
    ELSE [qobjs |-> Some([i \in DOMAIN disk.qobjs |-> FromDict(disk.qobjs[i])]),
          mappings |-> Some(disk.mappings), mheap |-> disk.mheap, err |-> "ok"]

\* the file read at every call, whatever the cache holds
try_loading_always(S) ==
    IF ~cache_file THEN S
    ELSE IF ~disk.exists THEN [S EXCEPT !.err = "FileNotFoundError"]
    ELSE [qobjs |-> Some([i \in DOMAIN disk.qobjs |-> FromDict(disk.qobjs[i])]),
          mappings |-> Some(disk.mappings), mheap |-> disk.mheap, err |-> "ok"]

\* S = [qobjs, mappings, mheap, err]; an exception leaves what was assigned before it
try_loading_cache_from_file(S) ==
    IF ~(S.qobjs.none /\ cache_file) THEN S
    ELSE IF ~disk.exists THEN [S EXCEPT !.err = "FileNotFoundError"]
    ELSE IF ~disk.readable THEN [S EXCEPT !.err = "UnpicklingError"]
    ELSE IF "qobjs" \notin disk.keys THEN [S EXCEPT !.err = "KeyError"]
    ELSE LET q == [i \in DOMAIN disk.qobjs |-> FromDict(disk.qobjs[i])]
         IN  IF "mappings" \notin disk.keys
             THEN [S EXCEPT !.qobjs = Some(q), !.err = "KeyError"]
             ELSE [qobjs |-> Some(q), mappings |-> Some(disk.mappings),
                   mheap |-> disk.mheap, err |-> "ok"]

-----------------------------------------------------------------------------
(* load_qobj_from_cache, statement by statement *)

\* np.array(uncompiled_gate.param, dtype=float).tolist(): every number becomes a
\* float of the same value (the model's numbers are far below 2^53)
ToFloat(x) == [t |-> "float", v |-> x.v]

FloatList(param) == [i \in DOMAIN param |-> ToFloat(param[i])]

\* a chunk past the end of the cache made from chunk 0 whatever try_reusing_qobjs says
reuse_chunk_always(S, chunk) ==
    IF S.qobjs.none \/ S.mappings.none THEN S
    ELSE IF Len(S.qobjs.v) > chunk \/ Len(S.qobjs.v) = 0 \/ Len(S.mappings.v) = 0 THEN S
    ELSE [S EXCEPT !.mappings = Some(Ins(S.mappings.v, chunk, At(S.mappings.v, 0))),
                   !.qobjs = Some(Ins(S.qobjs.v, chunk, At(S.qobjs.v, 0)))]

\* lines 154-156: a chunk past the end of the cache is made from chunk 0
reuse_chunk(S, chunk) ==
    IF ~(try_reusing_qobjs /\ ~S.qobjs.none /\ Len(S.qobjs.v) <= chunk) THEN S
    ELSE IF S.mappings.none THEN [S EXCEPT !.err = "AttributeError"]
    ELSE IF Len(S.mappings.v) = 0 THEN [S EXCEPT !.err = "IndexError"]
    ELSE LET m1 == Ins(S.mappings.v, chunk, At(S.mappings.v, 0))
         IN  IF Len(S.qobjs.v) = 0
             THEN [S EXCEPT !.mappings = Some(m1), !.err = "IndexError"]
             ELSE [S EXCEPT !.mappings = Some(m1),
                            !.qobjs = Some(Ins(S.qobjs.v, chunk, At(S.qobjs.v, 0)))]

\* line 152 and lines 154-156
load_begin(S, chunk) ==
    LET S1 == try_loading_cache_from_file(S)
    IN  IF S1.err # "ok" THEN S1 ELSE reuse_chunk(S1, chunk)

\* a circuit past the cached experiments of any chunk reuses experiment 0 of that chunk
reuse_experiment_any_chunk(S, chunk, circ_num) ==
    IF ~(try_reusing_qobjs /\ circ_num > 0) \/ S.qobjs.none \/ S.mappings.none THEN S
    ELSE IF chunk >= Len(S.qobjs.v) \/ chunk >= Len(S.mappings.v) THEN S
    ELSE IF Len(At(S.qobjs.v, chunk).experiments) > circ_num
            \/ Len(At(S.qobjs.v, chunk).experiments) = 0
            \/ Len(S.mheap[At(S.mappings.v, chunk)]) = 0
    THEN S
    ELSE [S EXCEPT !.qobjs.v[chunk + 1].experiments = Ins(@, circ_num, At(@, 0)),
                   !.mheap[At(S.mappings.v, chunk)] = Ins(@, circ_num, At(@, 0))]

\* experiment 0 reused for a circuit past the cached ones, its mapping left out
reuse_experiment_no_mapping(S, chunk, circ_num) ==
    IF ~(try_reusing_qobjs /\ chunk = 0 /\ circ_num > 0) \/ S.qobjs.none THEN S
    ELSE IF Len(S.qobjs.v) = 0 THEN S
    ELSE IF Len(At(S.qobjs.v, 0).experiments) > circ_num
            \/ Len(At(S.qobjs.v, 0).experiments) = 0
    THEN S
    ELSE [S EXCEPT !.qobjs.v[1].experiments = Ins(@, circ_num, At(@, 0))]

\* lines 162-164: a circuit past the cached experiments of chunk 0 reuses experiment 0
reuse_experiment(S, chunk, circ_num) ==
    IF ~(try_reusing_qobjs /\ chunk = 0 /\ circ_num > 0) THEN S
    ELSE IF S.qobjs.none THEN [S EXCEPT !.err = "TypeError"]
    ELSE IF chunk >= Len(S.qobjs.v) THEN [S EXCEPT !.err = "IndexError"]
    ELSE IF ~(Len(At(S.qobjs.v, chunk).experiments) <= circ_num) THEN S
    ELSE IF Len(At(S.qobjs.v, 0).experiments) = 0 THEN [S EXCEPT !.err = "IndexError"]
    ELSE LET exps == At(S.qobjs.v, 0).experiments
             q1 == [S.qobjs.v EXCEPT ![1].experiments = Ins(exps, circ_num, At(exps, 0))]
         IN  IF S.mappings.none THEN [S EXCEPT !.qobjs = Some(q1), !.err = "TypeError"]
             ELSE IF Len(S.mappings.v) = 0 \/ Len(S.mheap[At(S.mappings.v, 0)]) = 0
             THEN [S EXCEPT !.qobjs = Some(q1), !.err = "IndexError"]
             ELSE LET ref == At(S.mappings.v, 0)
                  IN  [S EXCEPT !.qobjs = Some(q1),
                                !.mheap[ref] = Ins(@, circ_num, At(@, 0))]

\* line 171: qobjs[chunk].experiments[circ_num].header.name = input_circuit.name
set_name(S, chunk, circ_num, input_circuit) ==
    IF S.qobjs.none THEN [S EXCEPT !.err = "TypeError"]
    ELSE IF chunk >= Len(S.qobjs.v) THEN [S EXCEPT !.err = "IndexError"]
    ELSE IF circ_num >= Len(At(S.qobjs.v, chunk).experiments)
    THEN [S EXCEPT !.err = "IndexError"]
    ELSE [S EXCEPT !.qobjs.v[chunk + 1].experiments[circ_num + 1].header.name =
                       input_circuit.name]

\* lines 158-171 for one circuit
load_circ(S, circuits, chunk, circ_num) ==
    LET S1 == reuse_experiment(S, chunk, circ_num)
    IN  IF S1.err # "ok" THEN S1
        ELSE set_name(S1, chunk, circ_num, At(circuits, circ_num))

\* the number of instructions line 172 iterates over
NumInstructions(S, chunk, circ_num) ==
    Len(At(At(S.qobjs.v, chunk).experiments, circ_num).instructions)

\* the cached gate left as it was
WriteParamsKeep(compiled_gate, uncompiled_gate) == compiled_gate

\* the parameters added to those the cached gate holds
WriteParamsAppend(compiled_gate, uncompiled_gate) ==
    [compiled_gate EXCEPT !.has_params = TRUE,
                          !.params = ParamsOf(compiled_gate) \o FloatList(uncompiled_gate.param)]

\* line 184
WriteParams(compiled_gate, uncompiled_gate) ==
    [compiled_gate EXCEPT !.has_params = TRUE, !.params = FloatList(uncompiled_gate.param)]

\* the check of lines 178-179 left out
NoGateMismatch(compiled_gate, uncompiled_gate) == FALSE

\* lines 178-179: the gates do not fit
GateMismatch(compiled_gate, uncompiled_gate) ==
    \/ Len(ParamsOf(compiled_gate)) # Len(uncompiled_gate.param)
    \/ compiled_gate.name # uncompiled_gate.name

\* lines 180-183: the message reads compiled_gate.params without getattr, so a gate
\* without the field (measure) raises AttributeError while the AquaError is built
MismatchError(compiled_gate) ==
    IF compiled_gate.has_params THEN "AquaError" ELSE "AttributeError"

\* lines 173-184 for one compiled gate
load_gate(S, circuits, chunk, circ_num, gate_num) ==
    LET compiled_gate == At(At(At(S.qobjs.v, chunk).experiments, circ_num).instructions,
                            gate_num)
        raw == raw_gates(At(circuits, circ_num).data)
    IN  IF compiled_gate.name = "snapshot" THEN S
        ELSE IF S.mappings.none THEN [S EXCEPT !.err = "TypeError"]
        ELSE IF chunk >= Len(S.mappings.v) THEN [S EXCEPT !.err = "IndexError"]
        ELSE LET slots == S.mheap[At(S.mappings.v, chunk)]
             IN  IF circ_num >= Len(slots) THEN [S EXCEPT !.err = "IndexError"]
                 ELSE IF gate_num >= Len(At(slots, circ_num))
                 THEN [S EXCEPT !.err = "IndexError"]
                 ELSE LET cache_index == At(At(slots, circ_num), gate_num)
                      IN  IF cache_index >= Len(raw) THEN [S EXCEPT !.err = "IndexError"]
                          ELSE IF GateMismatch(compiled_gate, At(raw, cache_index))
                          THEN [S EXCEPT !.err = MismatchError(compiled_gate)]
                          ELSE [S EXCEPT !.qobjs.v[chunk + 1].experiments[circ_num + 1]
                                             .instructions[gate_num + 1] =
                                         WriteParams(compiled_gate, At(raw, cache_index))]

\* every cached experiment handed out
ExecAllExperiments(S, circuits, chunk) == At(S.qobjs.v, chunk).experiments

\* lines 185-187: the experiments handed out
ExecExperiments(S, circuits, chunk) ==
    Slice(At(S.qobjs.v, chunk).experiments, Len(circuits))

\* lines 185-188
load_finish(S, circuits, chunk) ==
    IF S.qobjs.none THEN [S @@ [ret |-> <<>>] EXCEPT !.err = "TypeError"]
    ELSE IF chunk >= Len(S.qobjs.v) THEN [S @@ [ret |-> <<>>] EXCEPT !.err = "IndexError"]
    ELSE S @@ [ret |-> ExecExperiments(S, circuits, chunk)]

RECURSIVE load_gates(_, _, _, _, _)
load_gates(S, circuits, chunk, circ_num, gate_num) ==
    IF S.err # "ok" \/ gate_num >= NumInstructions(S, chunk, circ_num) THEN S
    ELSE load_gates(load_gate(S, circuits, chunk, circ_num, gate_num),
                    circuits, chunk, circ_num, gate_num + 1)

RECURSIVE load_circs(_, _, _, _)
load_circs(S, circuits, chunk, circ_num) ==
    IF S.err # "ok" \/ circ_num >= Len(circuits) THEN S
    ELSE LET S1 == load_circ(S, circuits, chunk, circ_num)
         IN  load_circs(load_gates(S1, circuits, chunk, circ_num, 0),
                        circuits, chunk, circ_num + 1)

\* the whole of load_qobj_from_cache, from the globals S = [qobjs, mappings, mheap, err]
load_qobj_from_cache(S, circuits, chunk) ==
    LET S1 == load_circs(load_begin(S, chunk), circuits, chunk, 0)
    IN  IF S1.err # "ok" THEN S1 @@ [ret |-> <<>>]
        ELSE load_finish(S1, circuits, chunk)

-----------------------------------------------------------------------------
(* The callers' inputs *)

IntNum(v) == [t |-> "int", v |-> v]
FloatNum(v) == [t |-> "float", v |-> v]

q0 == <<"q", 0>>
r0 == <<"r", 0>>
c0 == <<"c", 0>>

u1(a, v) == Gate("u1", <<a>>, <<IntNum(v)>>)
measure(a, c) == Gate("measure", <<a, c>>, <<>>)
snapshot(a) == Gate("snapshot", <<a>>, <<>>)

\* what the compiler (outside this module) makes of one uncompiled gate
Compiled(gate) ==
    Instr(gate.name, Qubits(gate), gate.name \notin {"measure", "snapshot"},
          FloatList(gate.param))

Reverse(s) == [i \in DOMAIN s |-> s[Len(s) + 1 - i]]

\* the compiler's output for one circuit: the gates in order, the gates in another
\* order, or (a compiler at odds with the circuit) one instruction short
CompileOne(circuit, variant) ==
    LET raw == raw_gates(circuit.data)
        same == [i \in DOMAIN raw |-> Compiled(raw[i])]
    IN  Experiment(circuit.name,
            CASE variant = "same" -> same
              [] variant = "reversed" -> Reverse(same)
              [] variant = "short" -> SubSeq(same, 1, Len(same) - 1))

\* the compiled qobj of a batch; the variant is that of the last circuit
Compile(circuits, variant) ==
    [experiments |->
        [i \in DOMAIN circuits |->
            CompileOne(circuits[i], IF i = Len(circuits) THEN variant ELSE "same")]]

Variants == {"same", "reversed", "short"}

ProgSet ==
    { Circuit("a", <<u1(q0, 1), measure(q0, c0)>>),
      Circuit("b", <<u1(q0, 2), measure(q0, c0)>>),
      Circuit("c", <<snapshot(q0), u1(q0, 2)>>) }

Batches == SeqsUpTo(ProgSet, MaxCircs) \ {<<>>}

InsertChunks == 0..1
Chunks == 0..2

-----------------------------------------------------------------------------
(* State machine *)

Globals == [qobjs |-> qobjs, mappings |-> mappings, mheap |-> mheap, disk |-> disk]

LoadGlobals == [qobjs |-> qobjs, mappings |-> mappings, mheap |-> mheap, err |-> "ok"]

\* the cache; a call keeps the cache it found (pre) for the statements about its effect
Cache == [qobjs |-> qobjs, mappings |-> mappings, mheap |-> mheap]

NoCall ==
    [op |-> "none", chunk |-> 0, circuits |-> <<>>, num |-> 0, err |-> "ok", ret |-> <<>>,
     pre |-> [qobjs |-> None, mappings |-> None, mheap |-> <<>>]]

NoPending == [todo |-> FALSE, qobj |-> [experiments |-> <<>>], circuits |-> <<>>, chunk |-> 0]

\* a caller of load_qobj_from_cache: where it is in the function, and its locals
Idle == [at |-> "idle", circuits |-> <<>>, chunk |-> 0, circ_num |-> 0, gate_num |-> 0,
         err |-> "ok", ret |-> <<>>, overlapped |-> FALSE]

NoProcs == [p \in {} |-> Idle]

\* no job kept by a caller
NoHeld == [live |-> FALSE, shared |-> FALSE, cached |-> FALSE, chunk |-> 0,
           first |-> <<>>, job |-> <<>>]

\* the objects of the operator classes, which the functions of the cache never touch
operators == <<expectation, composition>>

\* no AerPauliExpectation and no OpComposition constructed
NoExpectation == [made |-> FALSE]
NoComposition == [made |-> FALSE]
NoOperators == expectation = NoExpectation /\ composition = NoComposition

\* the module as imported: lines 47-54, with the configuration the caller sets
InitWith(naughty, reusing, file) ==
    /\ qobjs = None
    /\ mappings = None
    /\ mheap = <<>>
    /\ try_reusing_qobjs = reusing
    /\ naughty_mode = naughty
    /\ cache_file = file
    /\ disk = NoFile
    /\ last = NoCall
    /\ nops = 0

Config == <<try_reusing_qobjs, naughty_mode, cache_file>>

\* the globals and the record of the call after cache_circuit returned or raised with r
AfterCacheCircuit(r, circuits, chunk) ==
    /\ qobjs' = r.qobjs
    /\ mappings' = r.mappings
    /\ mheap' = r.mheap
    /\ disk' = r.disk
    /\ last' = [op |-> "cache_circuit", chunk |-> chunk,
                circuits |-> IF r.err = "ok" THEN circuits ELSE <<>>,
                num |-> Len(circuits),
                err |-> r.err, ret |-> <<>>, pre |-> Cache]
    /\ nops' = nops + 1
    /\ UNCHANGED Config

CallCacheCircuit(qobj, circuits, chunk) ==
    AfterCacheCircuit(cache_circuit(Globals, qobj, circuits, chunk), circuits, chunk)

\* the globals and the record of the call after load_qobj_from_cache returned or raised
AfterLoadQobjFromCache(r, circuits, chunk) ==
    /\ qobjs' = r.qobjs
    /\ mappings' = r.mappings
    /\ mheap' = r.mheap
    /\ last' = [op |-> "load_qobj_from_cache", chunk |-> chunk,
                circuits |-> IF r.err = "ok" THEN circuits ELSE <<>>,
                num |-> Len(circuits),
                err |-> r.err, ret |-> r.ret, pre |-> Cache]
    /\ nops' = nops + 1
    /\ UNCHANGED <<Config, disk>>

CallLoadQobjFromCache(circuits, chunk) ==
    AfterLoadQobjFromCache(load_qobj_from_cache(LoadGlobals, circuits, chunk), circuits, chunk)

\* lines 199-208; the mapping lists go with the references to them
clear_cache ==
    /\ qobjs' = None
    /\ mappings' = None
    /\ mheap' = <<>>
    /\ try_reusing_qobjs' = TRUE
    /\ last' = [NoCall EXCEPT !.op = "clear_cache", !.pre = Cache]
    /\ nops' = nops + 1
    /\ UNCHANGED <<naughty_mode, cache_file, disk>>

\* the cache grows without limit in the code; the model stops inserting at MaxChunks
Insert ==
    /\ nops < MaxOps
    /\ (qobjs.none \/ Len(qobjs.v) < MaxChunks)
    /\ \E circuits \in Batches, variant \in Variants, chunk \in InsertChunks :
           CallCacheCircuit(Compile(circuits, variant), circuits, chunk)
    /\ UNCHANGED <<pending, procs, held, operators>>

Patch ==
    /\ nops < MaxOps
    /\ \E circuits \in Batches, chunk \in Chunks : CallLoadQobjFromCache(circuits, chunk)
    /\ UNCHANGED <<pending, procs, held, operators>>

Clear ==
    /\ nops < MaxOps
    /\ clear_cache
    /\ UNCHANGED <<pending, procs, held, operators>>

Init == InitWith(FALSE, TRUE, FALSE) /\ pending = NoPending /\ procs = NoProcs /\ held = NoHeld /\ NoOperators

Next == Insert \/ Patch \/ Clear

Spec == Init /\ [][Next]_vars

-----------------------------------------------------------------------------
(* CfgSpec: the same calls under every setting of try_reusing_qobjs and cache_file, *)
(* and across processes that share the cache file                                   *)

\* a new process on the same disk: the module is imported again (lines 47-54) and the
\* caller sets its configuration as before; the file of line 127 stays
Restart ==
    /\ nops < MaxOps
    /\ cache_file
    /\ qobjs' = None
    /\ mappings' = None
    /\ mheap' = <<>>
    /\ last' = [NoCall EXCEPT !.op = "restart", !.pre = Cache]
    /\ nops' = nops + 1
    /\ UNCHANGED <<Config, disk, pending, procs, held, operators>>

CfgInit ==
    \E reusing \in BOOLEAN, file \in BOOLEAN :
        InitWith(FALSE, reusing, file) /\ pending = NoPending /\ procs = NoProcs /\ held = NoHeld /\ NoOperators

CfgNext == Insert \/ Patch \/ Clear \/ Restart

CfgSpec == CfgInit /\ [][CfgNext]_vars

-----------------------------------------------------------------------------
(* FileSpec: the same calls with cache_file set, in a process that finds at the *)
(* start whatever an earlier process or another program left under that name    *)

\* the file an earlier cache_circuit(qobj, [a], 0) wrote (lines 126-131)
EarlierFile ==
    LET circuits == <<Circuit("a", <<u1(q0, 1), measure(q0, c0)>>)>>
        qobj == Compile(circuits, "same")
        st == cache_loop(cache_insert(<<>>, <<>>, <<>>, qobj, circuits, 0),
                         qobj, circuits, 0, 0)
    IN  Pickled(st.q, st.m, st.h)

\* no file, a file that is no pickle, a pickled dict without one of the two keys, and
\* the file as cache_circuit writes it
FoundFiles ==
    { NoFile,
      [EarlierFile EXCEPT !.readable = FALSE],
      [EarlierFile EXCEPT !.keys = {"mappings"}],
      [EarlierFile EXCEPT !.keys = {"qobjs"}],
      EarlierFile }

FileInit ==
    /\ qobjs = None
    /\ mappings = None
    /\ mheap = <<>>
    /\ try_reusing_qobjs \in BOOLEAN
    /\ naughty_mode = FALSE
    /\ cache_file = TRUE
    /\ disk \in FoundFiles
    /\ last = NoCall
    /\ nops = 0
    /\ pending = NoPending
    /\ procs = NoProcs
    /\ held = NoHeld /\ NoOperators

FileNext == Insert \/ Patch \/ Clear \/ Restart

FileSpec == FileInit /\ [][FileNext]_vars

-----------------------------------------------------------------------------
(* HeldSpec: the same calls in both modes, with a caller that keeps a job that    *)
(* load_qobj_from_cache returned to it and looks at it after every later call     *)

\* the experiments handed out are never those of the cache
SharesNever == FALSE

\* the experiments handed out are those of the cache in both modes
SharesAlways == TRUE

\* lines 186-187: in naughty mode the job returned holds the experiment objects of
\* qobjs[chunk] themselves, otherwise deep copies of them
Shares == naughty_mode

\* the job r.ret of chunk as its caller keeps it: first is the job as returned
Keep(r, chunk) ==
    [live |-> TRUE, shared |-> Shares, cached |-> TRUE, chunk |-> chunk,
     first |-> r.ret, job |-> r.ret]

\* the kept job h as seen once the cached chunks are q: experiment objects shared with
\* the cache show what the cache wrote into them
Seen(h, q) ==
    IF h.live /\ h.shared /\ h.cached
    THEN [h EXCEPT !.job = Slice(At(q.v, h.chunk).experiments, Len(h.job))]
    ELSE h

\* qobjs.insert(chunk, ..) at line 84 moves the qobj the kept job came from up by one
\* when it goes in at or before that qobj's index
Shifted(h, chunk) ==
    IF h.live /\ h.cached /\ chunk <= h.chunk THEN [h EXCEPT !.chunk = @ + 1] ELSE h

HeldAfterCacheCircuit(r, circuits, chunk) ==
    /\ AfterCacheCircuit(r, circuits, chunk)
    /\ held' = Seen(Shifted(held, chunk), r.qobjs)

HeldAfterLoadQobjFromCache(r, circuits, chunk, keep) ==
    /\ AfterLoadQobjFromCache(r, circuits, chunk)
    /\ held' = IF keep /\ r.err = "ok" THEN Keep(r, chunk) ELSE Seen(held, r.qobjs)

HeldInsert ==
    /\ nops < MaxOps
    /\ (qobjs.none \/ Len(qobjs.v) < MaxChunks)
    /\ \E circuits \in Batches, variant \in Variants, chunk \in InsertChunks :
           HeldAfterCacheCircuit(cache_circuit(Globals, Compile(circuits, variant), circuits, chunk),
                                 circuits, chunk)
    /\ UNCHANGED <<pending, procs, operators>>

\* the caller keeps one of the jobs it gets, the first or a later one
HeldPatch ==
    /\ nops < MaxOps
    /\ \E circuits \in Batches, chunk \in Chunks, keep \in {~held.live, FALSE} :
           HeldAfterLoadQobjFromCache(load_qobj_from_cache(LoadGlobals, circuits, chunk),
                                      circuits, chunk, keep)
    /\ UNCHANGED <<pending, procs, operators>>

\* the cache lets go of its qobjs; the kept job keeps the objects it holds
HeldClear ==
    /\ nops < MaxOps
    /\ clear_cache
    /\ held' = [held EXCEPT !.cached = FALSE]
    /\ UNCHANGED <<pending, procs, operators>>

HeldInit ==
    \E naughty \in BOOLEAN, reusing \in BOOLEAN :
        InitWith(naughty, reusing, FALSE) /\ pending = NoPending /\ procs = NoProcs
                                          /\ held = NoHeld /\ NoOperators

HeldNext == HeldInsert \/ HeldPatch \/ HeldClear

HeldSpec == HeldInit /\ [][HeldNext]_vars

-----------------------------------------------------------------------------
(* MatchSpec: one cache_circuit call on an empty cache, over every circuit of up to *)
(* MaxGates gates and every compiled experiment of up to MaxInstrs instructions     *)

GateSet ==
    { u1(q0, 1), u1(q0, 2), u1(r0, 1), measure(q0, c0),
      CompositeGate(<<u1(q0, 1), u1(r0, 2)>>) }

InstrSet ==
    { Instr("u1", <<0>>, TRUE, <<FloatNum(0)>>),
      Instr("u1", <<1>>, TRUE, <<FloatNum(0)>>),
      Instr("measure", <<0>>, FALSE, <<>>) }

MatchCircuits == {Circuit("x", data) : data \in SeqsUpTo(GateSet, MaxGates)}

MatchExperiments == {Experiment("x", ins) : ins \in SeqsUpTo(InstrSet, MaxInstrs)}

GoodCircuit == Circuit("a", <<u1(q0, 1), measure(q0, c0)>>)

\* the circuit under test alone, or after or before a circuit that matches its experiment
MatchForms == {"alone", "after", "before"}

MatchInput(c, e, form) ==
    LET good == CompileOne(GoodCircuit, "same")
    IN  [todo |-> FALSE, chunk |-> 0,
         circuits |-> CASE form = "alone" -> <<c>>
                        [] form = "after" -> <<GoodCircuit, c>>
                        [] form = "before" -> <<c, GoodCircuit>>,
         qobj |-> [experiments |-> CASE form = "alone" -> <<e>>
                                     [] form = "after" -> <<good, e>>
                                     [] form = "before" -> <<e, good>>]]

MatchInit == InitWith(FALSE, TRUE, FALSE) /\ pending = NoPending /\ procs = NoProcs /\ held = NoHeld /\ NoOperators

\* the one call; pending keeps its arguments
MatchInsert ==
    /\ nops = 0
    /\ \E c \in MatchCircuits, e \in MatchExperiments, form \in MatchForms :
           LET input == MatchInput(c, e, form)
           IN  /\ CallCacheCircuit(input.qobj, input.circuits, input.chunk)
               /\ pending' = input
    /\ UNCHANGED <<procs, held, operators>>

MatchNext == MatchInsert

MatchSpec == MatchInit /\ [][MatchNext]_vars

-----------------------------------------------------------------------------
(* Statements about the mapping cache_circuit stores (MatchSpec) *)

MatchDone == nops = 1 /\ last.op = "cache_circuit"
MatchOk == MatchDone /\ last.err = "ok"

MatchSlots == 0..(Len(pending.circuits) - 1)
SlotRaw(s) == raw_gates(At(pending.circuits, s).data)
SlotInstrs(s) == At(pending.qobj.experiments, s).instructions
SlotMapping(s) == At(mheap[At(mappings.v, pending.chunk)], s)

GateSigs(raw) == [i \in DOMAIN raw |-> <<raw[i].name, Qubits(raw[i])>>]
InstrSigs(ins) == [i \in DOMAIN ins |-> <<ins[i].name, ins[i].qubits>>]

\* the 0-based positions of signature k in a sequence of signatures, in order
PositionsOf(sigs, k) ==
    SelectSeq([i \in DOMAIN sigs |-> i - 1], LAMBDA i : sigs[i + 1] = k)

Identity(n) == [i \in 1..n |-> i - 1]

SameSignatureCounts(s) ==
    LET rs == GateSigs(SlotRaw(s))
        is == InstrSigs(SlotInstrs(s))
    IN  \A k \in Range(rs) \cup Range(is) :
            Len(PositionsOf(rs, k)) = Len(PositionsOf(is, k))

\* C1: after a successful cache_circuit, in every slot, the k-th compiled instruction of
\* a signature is mapped to the k-th source operation of that signature; a compiled
\* experiment in the order of the source yields the identity mapping.
C1_FifoPerSignature ==
    MatchOk =>
        \A s \in MatchSlots :
            LET rs == GateSigs(SlotRaw(s))
                is == InstrSigs(SlotInstrs(s))
                map == SlotMapping(s)
            IN  /\ \A k \in Range(is) :
                       LET pi == PositionsOf(is, k)
                           ps == PositionsOf(rs, k)
                       IN  /\ Len(pi) <= Len(ps)
                           /\ \A n \in DOMAIN pi :
                                  pi[n] < Len(map) /\ At(map, pi[n]) = ps[n]
                /\ (is = rs => map = Identity(Len(rs)))

\* a successful insert of a slot with a repeated signature around another one, whose
\* mapping is not the identity
C1_Witness ==
    /\ MatchOk
    /\ \E s \in MatchSlots :
           LET is == InstrSigs(SlotInstrs(s))
           IN  /\ \E k \in Range(is) : Len(PositionsOf(is, k)) >= 2
               /\ Cardinality(Range(is)) >= 2
               /\ SlotMapping(s) # Identity(Len(is))

\* C2: cache_circuit succeeds exactly when, in every slot, the compiled instructions
\* and the source operations have the same signatures with the same multiplicities.
C2_SuccessIffSameSignatures ==
    MatchDone => (last.err = "ok" <=> \A s \in MatchSlots : SameSignatureCounts(s))

\* a two-slot insert whose first slot matches and whose second slot fails
C2_Witness ==
    /\ MatchDone
    /\ last.err # "ok"
    /\ Len(pending.circuits) = 2
    /\ SameSignatureCounts(0)
    /\ ~SameSignatureCounts(1)

\* C3: after a successful cache_circuit every slot's mapping holds every source index
\* exactly once, and instruction i has the signature of source operation mapping[i].
C3_MappingIsSignatureBijection ==
    MatchOk =>
        \A s \in MatchSlots :
            LET rs == GateSigs(SlotRaw(s))
                is == InstrSigs(SlotInstrs(s))
                map == SlotMapping(s)
            IN  /\ Len(map) = Len(is)
                /\ \A i, j \in DOMAIN map : i # j => map[i] # map[j]
                /\ \A u \in 0..(Len(rs) - 1) :
                       Cardinality({i \in DOMAIN map : map[i] = u}) = 1
                /\ \A i \in DOMAIN map :
                       map[i] \in 0..(Len(rs) - 1) /\ At(rs, map[i]) = is[i]

\* a successful insert of three instructions in an order other than the source's
C3_Witness ==
    /\ MatchOk
    /\ \E s \in MatchSlots :
           Len(SlotMapping(s)) = 3 /\ SlotMapping(s) # Identity(3)

ParameterizedCount(raw) == Cardinality({i \in DOMAIN raw : raw[i].param # <<>>})

\* C4 as claimed: the mapping has one entry per parameterized source operation,
\* instructions without parameters being left out of it.
C4_LengthIsParameterizedCount ==
    MatchOk => \A s \in MatchSlots : Len(SlotMapping(s)) = ParameterizedCount(SlotRaw(s))

\* C4 as amended: the mapping has one entry per compiled instruction, that is one per
\* source operation, with or without parameters.
C4_LengthIsInstructionCount ==
    MatchOk =>
        \A s \in MatchSlots :
            /\ Len(SlotMapping(s)) = Len(SlotInstrs(s))
            /\ Len(SlotMapping(s)) = Len(SlotRaw(s))

\* a successful insert of a slot with a measure: it is mapped, though it has no parameters
C4_Witness ==
    /\ MatchOk
    /\ \E s \in MatchSlots :
           /\ \E i \in DOMAIN SlotInstrs(s) :
                  /\ SlotInstrs(s)[i].name = "measure"
                  /\ At(SlotRaw(s), At(SlotMapping(s), i - 1)).param = <<>>
           /\ Len(SlotMapping(s)) > ParameterizedCount(SlotRaw(s))

\* parameter lists other than those of the inputs: another value, two values, none
OtherParams == {<<IntNum(5)>>, <<FloatNum(7), FloatNum(8)>>, <<>>}
OtherCompiledParams == {<<FloatNum(3)>>, <<FloatNum(1), FloatNum(2)>>}

\* the gate with param in place of its parameters, a gate without parameters kept
WithParam(gate, param) ==
    IF gate.composite
    THEN [gate EXCEPT !.list = [i \in DOMAIN gate.list |->
                                    IF gate.list[i].param = <<>> THEN gate.list[i]
                                    ELSE [gate.list[i] EXCEPT !.param = param]]]
    ELSE IF gate.param = <<>> THEN gate
    ELSE [gate EXCEPT !.param = param]

\* the same circuits, gate for gate, with other parameters
CircuitsWithParam(circuits, param) ==
    [c \in DOMAIN circuits |->
        [circuits[c] EXCEPT !.data = [i \in DOMAIN circuits[c].data |->
                                          WithParam(circuits[c].data[i], param)]]]

\* the same qobj, instruction for instruction, with other parameters
QobjWithParams(qobj, params) ==
    [experiments |->
        [e \in DOMAIN qobj.experiments |->
            [qobj.experiments[e] EXCEPT !.instructions =
                [i \in DOMAIN qobj.experiments[e].instructions |->
                    IF qobj.experiments[e].instructions[i].has_params
                    THEN [qobj.experiments[e].instructions[i] EXCEPT !.params = params]
                    ELSE qobj.experiments[e].instructions[i]]]]]

\* C25: the mapping cache_circuit stores does not depend on parameters: the call made
\* with the same circuits and the same qobj, but other parameters in the gates and in
\* the instructions, raises or returns as the first did and leaves the same mappings.
C25_MappingIgnoresParameters ==
    MatchDone =>
        \A param \in OtherParams, params \in OtherCompiledParams :
            LET r == cache_circuit(last.pre @@ [disk |-> NoFile],
                                   QobjWithParams(pending.qobj, params),
                                   CircuitsWithParam(pending.circuits, param),
                                   pending.chunk)
            IN  /\ r.err = last.err
                /\ r.mappings = mappings
                /\ r.mheap = mheap

\* a successful insert of a slot of gates that differ in their parameters alone, in the
\* order of the source, with a mapping for every instruction
C25_Witness ==
    /\ MatchOk
    /\ \E s \in MatchSlots :
           /\ \E i, j \in DOMAIN SlotRaw(s) :
                  /\ i < j
                  /\ GateSigs(SlotRaw(s))[i] = GateSigs(SlotRaw(s))[j]
                  /\ SlotRaw(s)[i].param # SlotRaw(s)[j].param
           /\ Len(SlotMapping(s)) = 3

-----------------------------------------------------------------------------
(* Statements about calls on the cache (Spec) *)

IsInsert == last.op = "cache_circuit"
IsLoad == last.op = "load_qobj_from_cache"
Ok == last.err = "ok"

\* len(qobjs), an unset cache counting as empty
NumChunks(q) == IF q.none THEN 0 ELSE Len(q.v)

\* the chunks the call found, by index
OldChunks == 0..(NumChunks(last.pre.qobjs) - 1)

\* mappings[c][s] in the globals G
MappingOf(G, c, s) == At(G.mheap[At(G.mappings.v, c)], s)

\* C5: a cache_circuit call that fails leaves the cache as it found it: the same number
\* of chunks and the same mapping lists.
C5_FailedInsertLeavesCache ==
    (IsInsert /\ ~Ok) =>
        /\ NumChunks(qobjs) = NumChunks(last.pre.qobjs)
        /\ NumChunks(mappings) = NumChunks(last.pre.mappings)
        /\ mheap = last.pre.mheap

\* C6: a successful cache_circuit at an index that holds a chunk replaces that chunk: the
\* number of chunks is as before and every other index holds what it held.
C6_InsertReplacesChunk ==
    (IsInsert /\ Ok /\ last.chunk < NumChunks(last.pre.qobjs)) =>
        /\ NumChunks(qobjs) = NumChunks(last.pre.qobjs)
        /\ \A c \in 0..(NumChunks(last.pre.qobjs) - 1) :
               c # last.chunk => At(qobjs.v, c) = At(last.pre.qobjs.v, c)

\* two lists of numbers of the same values (an int equals the float of its value)
SameNumbers(a, b) == Len(a) = Len(b) /\ \A i \in DOMAIN a : a[i].v = b[i].v

\* every instruction of the job other than a snapshot holds the parameters of the
\* operation of circuits that mappings[chunk] names for it
ParamsFrom(job, circuits, chunk) ==
    \A s \in 0..(Len(job) - 1) :
        /\ s < Len(circuits)
        /\ \A i \in 0..(Len(At(job, s).instructions) - 1) :
               LET gate == At(At(job, s).instructions, i)
                   raw == raw_gates(At(circuits, s).data)
                   cache_index == At(MappingOf(Cache, chunk, s), i)
               IN  gate.name # "snapshot" =>
                       /\ gate.has_params
                       /\ \A n \in DOMAIN gate.params : gate.params[n].t = "float"
                       /\ SameNumbers(gate.params, At(raw, cache_index).param)

\* C7: the job a successful load_qobj_from_cache returns holds, at every patched
\* instruction i of every slot s, the parameters of operation mappings[chunk][s][i] of
\* circuit s.
C7_PatchedParametersFollowMapping ==
    (IsLoad /\ Ok) =>
        /\ Len(last.ret) = Len(last.circuits)
        /\ ParamsFrom(last.ret, last.circuits, last.chunk)

\* a successful patch through a mapping that is not the identity, with parameters other
\* than those the cached chunk held, past a snapshot in another slot
C7_Witness ==
    /\ IsLoad /\ Ok
    /\ Len(last.ret) = 2
    /\ last.chunk \in OldChunks
    /\ MappingOf(Cache, last.chunk, 0) = <<1, 0>>
    /\ At(last.ret, 0) # At(At(last.pre.qobjs.v, last.chunk).experiments, 0)
    /\ \E i \in DOMAIN At(last.ret, 1).instructions :
           At(last.ret, 1).instructions[i].name = "snapshot"

\* C8 as claimed: in safe mode load_qobj_from_cache leaves the parameters of every cached
\* instruction as they were.
C8_SafePatchKeepsCachedParameters ==
    (IsLoad /\ ~naughty_mode) =>
        \A c \in OldChunks :
            LET old == At(last.pre.qobjs.v, c).experiments
                new == At(qobjs.v, c).experiments
            IN  \A s \in DOMAIN old :
                    \A i \in DOMAIN old[s].instructions :
                        ParamsOf(new[s].instructions[i]) = ParamsOf(old[s].instructions[i])

\* C8 as amended: in safe mode load_qobj_from_cache writes the parameters into the
\* cached chunk it patches and returns a copy of the patched slots; it changes no name
\* and no qubits of a cached instruction and nothing in any other chunk.
C8_SafePatchWritesCacheThenCopies ==
    (IsLoad /\ ~naughty_mode) =>
        /\ NumChunks(qobjs) >= NumChunks(last.pre.qobjs)
        /\ \A c \in OldChunks :
               LET old == At(last.pre.qobjs.v, c).experiments
                   new == At(qobjs.v, c).experiments
               IN  /\ Len(new) >= Len(old)
                   /\ c # last.chunk => new = old
                   /\ \A s \in DOMAIN old :
                          /\ Len(new[s].instructions) = Len(old[s].instructions)
                          /\ \A i \in DOMAIN old[s].instructions :
                                 /\ new[s].instructions[i].name = old[s].instructions[i].name
                                 /\ new[s].instructions[i].qubits
                                        = old[s].instructions[i].qubits
        /\ Ok => last.ret = Slice(At(qobjs.v, last.chunk).experiments, Len(last.circuits))

\* a successful safe-mode patch of one slot of a chunk of two, after which a cached
\* instruction holds other parameters than before
C8_Witness ==
    /\ IsLoad /\ Ok /\ ~naughty_mode
    /\ last.chunk \in OldChunks
    /\ Len(last.circuits) = 1
    /\ Len(At(qobjs.v, last.chunk).experiments) = 2
    /\ \E i \in DOMAIN At(last.ret, 0).instructions :
           ParamsOf(At(At(qobjs.v, last.chunk).experiments, 0).instructions[i])
               # ParamsOf(At(At(last.pre.qobjs.v, last.chunk).experiments, 0).instructions[i])

\* the same call made once more, from the globals as they are now
Again == load_qobj_from_cache(LoadGlobals, last.circuits, last.chunk)

\* C10: in safe mode, the call that follows a successful load_qobj_from_cache with the
\* same circuits and chunk succeeds and returns an equal job.
C10_PatchTwiceSameJob ==
    (IsLoad /\ Ok /\ ~naughty_mode) => (Again.err = "ok" /\ Again.ret = last.ret)

\* a successful safe-mode patch that had to add a slot to chunk 0
C10_Witness ==
    /\ IsLoad /\ Ok /\ ~naughty_mode
    /\ last.chunk = 0
    /\ Len(last.ret) = 2
    /\ Len(At(last.pre.qobjs.v, 0).experiments) = 1
    /\ At(last.ret, 0) # At(last.ret, 1)

-----------------------------------------------------------------------------
(* Statements about calls on chunks and slots the cache does not hold (CfgSpec) *)

\* line 152 had a cache file to load: the call started from the cache of the file
FileLoaded ==
    /\ last.pre.qobjs.none /\ cache_file
    /\ disk.exists /\ disk.readable /\ disk.keys = {"qobjs", "mappings"}

\* the number of chunks the call had once line 152 was done
NumFound == IF FileLoaded THEN Len(disk.qobjs) ELSE NumChunks(last.pre.qobjs)

\* lines 154-156 had a chunk 0 to copy and were switched on
Reused == try_reusing_qobjs /\ NumFound >= 1

Failed == ~Ok /\ last.ret = <<>>

FoundQobjs == IF FileLoaded THEN disk.qobjs ELSE last.pre.qobjs.v

\* the number of experiments (program slots) the call found cached for its chunk
SlotsFound == Len(At(FoundQobjs, last.chunk).experiments)

\* lines 162-164 were switched on for the chunk of the call
Extended == try_reusing_qobjs /\ last.chunk = 0

C12_WitnessChunk0 ==
    /\ IsLoad /\ ~try_reusing_qobjs
    /\ last.chunk = 0 /\ last.chunk < NumFound
    /\ SlotsFound = 1 /\ last.num = 2
    /\ Failed

\* the cached experiment that slot s of the chunk of the call was, or was copied from,
\* when the call began: its own, experiment 0 of its chunk, or those of chunk 0
Template(s) ==
    LET c == IF last.chunk < NumFound THEN last.chunk ELSE 0
        exps == At(FoundQobjs, c).experiments
    IN  At(exps, IF s < Len(exps) THEN s ELSE 0)

\* the number of parameters of every instruction the call found cached is as it was
SameParameterCounts ==
    \A c \in 0..(NumFound - 1) :
        LET old == At(FoundQobjs, c).experiments
            new == At(qobjs.v, c).experiments
        IN  \A s \in DOMAIN old :
                \A i \in DOMAIN old[s].instructions :
                    Len(ParamsOf(new[s].instructions[i])) = Len(ParamsOf(old[s].instructions[i]))

\* every cached instruction of the patched slots, snapshots apart, had the name and the
\* number of parameters of the operation its mapping names
MappedPairsAgree ==
    \A s \in 0..(Len(last.circuits) - 1) :
        LET raw == raw_gates(At(last.circuits, s).data)
            instructions == Template(s).instructions
        IN  \A i \in 0..(Len(instructions) - 1) :
                LET gate == At(instructions, i)
                    op == At(raw, At(MappingOf(Cache, last.chunk, s), i))
                IN  gate.name # "snapshot" =>
                        /\ gate.name = op.name
                        /\ Len(ParamsOf(gate)) = Len(op.param)

\* C13: load_qobj_from_cache never changes the number of parameters of a cached
\* instruction, whether it returns or raises; a call that returns a job found every
\* mapped pair equal in name and in parameter count (a pair that differs makes the call
\* raise), and a call that raises returns no job.
C13_ParameterCountsKept ==
    IsLoad =>
        /\ SameParameterCounts
        /\ Ok => MappedPairsAgree
        /\ ~Ok => last.ret = <<>>

\* a call that raised at line 180 after it had patched the slot before
C13_Witness ==
    /\ IsLoad /\ last.err = "AquaError" /\ last.num = 2
    /\ last.chunk < NumFound
    /\ At(At(qobjs.v, last.chunk).experiments, 0) # At(At(FoundQobjs, last.chunk).experiments, 0)

\* C14: in safe mode a load_qobj_from_cache call that raises leaves the cache it found
\* as it was: the same chunks, the same experiments with the same parameters, the same
\* mapping lists.
C14_FailedPatchLeavesCache ==
    (IsLoad /\ ~Ok /\ ~naughty_mode /\ ~last.pre.qobjs.none) =>
        /\ NumChunks(qobjs) = NumChunks(last.pre.qobjs)
        /\ mappings = last.pre.mappings
        /\ mheap = last.pre.mheap
        /\ \A c \in OldChunks :
               LET old == At(last.pre.qobjs.v, c).experiments
                   new == At(qobjs.v, c).experiments
               IN  /\ Len(new) = Len(old)
                   /\ \A s \in DOMAIN old :
                          \A i \in DOMAIN old[s].instructions :
                              ParamsOf(new[s].instructions[i])
                                  = ParamsOf(old[s].instructions[i])

\* the names and qubits of the instructions of every experiment of a qobj
Shape(qobj) ==
    [s \in DOMAIN qobj.experiments |->
        [i \in DOMAIN qobj.experiments[s].instructions |->
            <<qobj.experiments[s].instructions[i].name,
              qobj.experiments[s].instructions[i].qubits>>]]

\* C15: a load_qobj_from_cache call with reuse on, for a chunk index the cache does not
\* hold while it holds chunk 0 (an index past the number of chunks included), leaves at
\* that index a copy of the qobj of chunk 0 with the mappings of chunk 0.
C15_AbsentChunkCopiedFromChunk0 ==
    (IsLoad /\ try_reusing_qobjs /\ NumFound >= 1 /\ last.chunk >= NumFound) =>
        /\ last.chunk < NumChunks(qobjs)
        /\ last.chunk < NumChunks(mappings)
        /\ At(mappings.v, last.chunk) = At(mappings.v, 0)
        /\ \A s \in 1..Len(At(FoundQobjs, 0).experiments) :
               Shape(At(qobjs.v, last.chunk))[s] = Shape(At(FoundQobjs, 0))[s]

\* the circuit can be patched into the experiment through the mapping: every
\* instruction other than a snapshot has a mapped operation of its name and of its
\* number of parameters
Fits(circuit, experiment, mapping) ==
    LET raw == raw_gates(circuit.data)
    IN  \A i \in 0..(Len(experiment.instructions) - 1) :
            LET gate == At(experiment.instructions, i)
            IN  gate.name # "snapshot" =>
                    /\ i < Len(mapping)
                    /\ At(mapping, i) < Len(raw)
                    /\ ~GateMismatch(gate, At(raw, At(mapping, i)))

\* every circuit fits its slot of chunk 0 as cached now, a circuit past the cached
\* slots fitting slot 0
FitsChunk0(circuits) ==
    LET exps == At(qobjs.v, 0).experiments
        slots == mheap[At(mappings.v, 0)]
    IN  /\ Len(slots) = Len(exps)
        /\ \A s \in 0..(Len(circuits) - 1) :
               LET t == IF s < Len(exps) THEN s ELSE 0
               IN  Fits(At(circuits, s), At(exps, t), At(slots, t))

C17_NoChunk0Fails ==
    (IsLoad /\ last.chunk > 0 /\ NumChunks(last.pre.qobjs) = 0) =>
        (Failed /\ Cache = last.pre)

\* C17 as amended: a load_qobj_from_cache call for a chunk index above 0 on a cache
\* without chunk 0 raises and leaves the cache as it was when there is no cache file to
\* load; when cache_file is set and the file exists, the call first makes the cache
\* that of the file and goes on from there.
C17_NoChunk0NoFileFails ==
    (IsLoad /\ last.chunk > 0 /\ NumChunks(last.pre.qobjs) = 0) =>
        IF FileLoaded
        THEN NumChunks(qobjs) >= Len(disk.qobjs) /\ NumChunks(mappings) >= Len(disk.mappings)
        ELSE Failed /\ Cache = last.pre

\* chunk 2 asked of a cache that was never filled, with reuse on and no cache file
C17_Witness ==
    /\ IsLoad /\ try_reusing_qobjs /\ ~cache_file
    /\ last.chunk = 2
    /\ last.pre.qobjs.none
    /\ last.err = "TypeError"

-----------------------------------------------------------------------------
(* Statements about clear_cache, the number of chunks and the cache file (CfgSpec) *)

IsClear == last.op = "clear_cache"

\* C18: after clear_cache the cache is empty under every configuration: a
\* load_qobj_from_cache call that comes next, for any chunk, raises and returns no job,
\* and the cache is still unset, also when cache_file is set and an earlier cache_circuit
\* wrote the file.
C18_ClearedCacheMisses ==
    [][(IsClear /\ last'.op = "load_qobj_from_cache") =>
           (last'.err # "ok" /\ last'.ret = <<>> /\ qobjs'.none)]_vars

\* C19: cache_circuit and load_qobj_from_cache (the load of the cache file and the
\* reuse of chunk 0 included), whether they return or raise, leave at least as many
\* chunks and as many lists of mappings as they found; clear_cache leaves none.
C19_ChunksNeverDropButOnClear ==
    /\ (IsInsert \/ IsLoad) =>
           /\ NumChunks(qobjs) >= NumChunks(last.pre.qobjs)
           /\ NumChunks(mappings) >= NumChunks(last.pre.mappings)
    /\ IsClear => (qobjs.none /\ mappings.none)

\* a cache_circuit call that raised on a cache of one chunk
C19_Witness ==
    /\ IsInsert /\ ~Ok
    /\ NumChunks(last.pre.qobjs) = 1
    /\ NumChunks(qobjs) = 2

\* C20: a cache_circuit call that succeeds with cache_file set leaves in the file all the
\* chunks of the cache as it is when the call returns, qobjs and mappings; a call that
\* raises, and every other operation, leaves the file as it was; without cache_file
\* there never is a file.
C20_FileWrittenOnSuccessfulInsert ==
    /\ [](~cache_file => ~disk.exists)
    /\ [][IF last'.op = "cache_circuit" /\ last'.err = "ok" /\ cache_file
          THEN /\ disk'.exists
               /\ disk'.qobjs = qobjs'.v
               /\ disk'.mappings = mappings'.v
               /\ disk'.mheap = mheap'
          ELSE disk' = disk]_vars

\* cache_file is set and the call that succeeded made the second chunk of the cache
C20_Witness ==
    /\ IsInsert /\ Ok /\ cache_file
    /\ NumChunks(qobjs) = 2
    /\ disk.exists
    /\ disk.qobjs = qobjs.v
    /\ disk.mappings = mappings.v

-----------------------------------------------------------------------------
(* Statements about the cache file read back (CfgSpec) *)

\* the module globals of a process that has not used the cache yet
Unset == [qobjs |-> None, mappings |-> None, mheap |-> <<>>, err |-> "ok"]

\* what line 152 makes of the cache file in such a process
Loaded == try_loading_cache_from_file(Unset)

\* err and ret of load_qobj_from_cache from the globals G
Outcome(G, circuits, chunk) ==
    LET r == load_qobj_from_cache(G, circuits, chunk)
    IN  <<r.err, r.ret>>

LoadErrors == {"FileNotFoundError", "UnpicklingError", "KeyError"}

\* C22 (FileSpec): a load_qobj_from_cache call whose load of the cache file failed
\* leaves the cache unset, qobjs and mappings alike, with nothing of the file in it.
C22_FailedLoadLeavesCacheUnset ==
    (IsLoad /\ last.pre.qobjs.none /\ last.err \in LoadErrors) =>
        (qobjs.none /\ mappings.none /\ mheap = <<>>)

-----------------------------------------------------------------------------
(* Statements about the shape of the cache in every state (CfgSpec) *)

\* the numbers of instructions of an experiment a mapping may be as long as: all of
\* them, those other than snapshots, those with parameters
PatchableCounts(experiment) ==
    LET ins == experiment.instructions
    IN  { Len(ins),
          Cardinality({i \in DOMAIN ins : ins[i].name # "snapshot"}),
          Cardinality({i \in DOMAIN ins : ins[i].has_params}) }

\* chunk c has a list of mappings, one per experiment of its qobj, each as long as the
\* experiment has instructions to patch
ChunkWellFormed(c) ==
    /\ c < NumChunks(mappings)
    /\ LET exps == At(qobjs.v, c).experiments
           slots == mheap[At(mappings.v, c)]
       IN  /\ Len(slots) = Len(exps)
           /\ \A s \in DOMAIN exps : Len(slots[s]) \in PatchableCounts(exps[s])

\* C23: in every state, after calls that returned and calls that raised, every chunk has
\* one mapping per experiment of its qobj, and each mapping is as long as its experiment
\* has instructions to patch.
C23_OneMappingPerSlot ==
    \A c \in 0..(NumChunks(qobjs) - 1) : ChunkWellFormed(c)

\* what the globals G hold under chunk index c: the qobj and the list of mappings
StoredUnder(G, c) == <<At(G.qobjs.v, c), G.mheap[At(G.mappings.v, c)]>>

\* the chunks above 0 that the call found and that lines 155-156 once made from
\* chunk 0: their entry of mappings is the list object of chunk 0
DuplicatesFound ==
    {c \in 1..(NumChunks(last.pre.qobjs) - 1) :
        /\ c < NumChunks(last.pre.mappings)
        /\ At(last.pre.mappings.v, c) = At(last.pre.mappings.v, 0)}

\* the call added experiments to chunk 0 (lines 162-164)
ExtendedChunk0 ==
    /\ IsLoad /\ last.chunk = 0
    /\ NumChunks(last.pre.qobjs) >= 1
    /\ Len(At(qobjs.v, 0).experiments) > Len(At(last.pre.qobjs.v, 0).experiments)

\* C27: a load_qobj_from_cache call that adds experiments to chunk 0 leaves every chunk
\* that was made as a duplicate of chunk 0 as it was: the same experiments and the same
\* list of mappings.
C27_ExtensionLeavesDuplicates ==
    ExtendedChunk0 =>
        \A c \in DuplicatesFound : StoredUnder(Cache, c) = StoredUnder(last.pre, c)

\* the cache the call had once line 152 was done
Found ==
    IF FileLoaded
    THEN [qobjs |-> Some(disk.qobjs), mappings |-> Some(disk.mappings), mheap |-> disk.mheap]
    ELSE last.pre

\* the call found its chunk cached, with a list of mappings, and brought no more
\* circuits than the chunk has experiments
FewerPrograms ==
    /\ IsLoad
    /\ last.chunk < NumFound
    /\ last.chunk < NumChunks(Found.mappings)
    /\ last.num <= SlotsFound

\* C29: a load_qobj_from_cache call with n circuits on a chunk of m >= n experiments
\* returns, when it returns, the n first experiments of the chunk and no other; whether
\* it returns or raises, the chunk keeps its m experiments, experiments n..m-1 are as
\* they were, and so is the chunk's list of mappings.
C29_FewerProgramsThanSlots ==
    FewerPrograms =>
        LET old == At(FoundQobjs, last.chunk).experiments
            new == At(qobjs.v, last.chunk).experiments
        IN  /\ Ok => (Len(last.ret) = last.num /\ last.ret = SubSeq(new, 1, last.num))
            /\ Len(new) = Len(old)
            /\ \A s \in (last.num + 1)..Len(old) : new[s] = old[s]
            /\ mheap[At(mappings.v, last.chunk)] = Found.mheap[At(Found.mappings.v, last.chunk)]

\* one circuit patched into a chunk of two experiments, the first of which changed
C29_Witness ==
    /\ FewerPrograms /\ Ok
    /\ last.num = 1 /\ SlotsFound = 2
    /\ At(At(qobjs.v, last.chunk).experiments, 0) # At(At(FoundQobjs, last.chunk).experiments, 0)
    /\ Len(mheap[At(mappings.v, last.chunk)]) = 2

\* load_qobj_from_cache from line 154 on, line 152 left out
LoadFromMemory(S, circuits, chunk) ==
    LET S1 == load_circs(reuse_chunk(S, chunk), circuits, chunk, 0)
    IN  IF S1.err # "ok" THEN S1 @@ [ret |-> <<>>]
        ELSE load_finish(S1, circuits, chunk)

\* C30: the cache file is read only while qobjs is unset and cache_file is set: in every
\* other state line 152 leaves the globals as they are, whatever the file holds, and a
\* load_qobj_from_cache call that returned from such a state did what the call does
\* with line 152 left out, on the chunks in memory alone.
C30_FileReadOnlyWhileUnset ==
    /\ (~qobjs.none \/ ~cache_file) =>
           try_loading_cache_from_file(LoadGlobals) = LoadGlobals
    /\ (IsLoad /\ Ok /\ (~last.pre.qobjs.none \/ ~cache_file)) =>
           LoadFromMemory(last.pre @@ [err |-> "ok"], last.circuits, last.chunk)
               = LoadGlobals @@ [ret |-> last.ret]

\* a patch that returned on a cache that held chunks, with a file that holds other
\* chunks than the cache does now
C30_Witness ==
    /\ IsLoad /\ Ok /\ ~last.pre.qobjs.none
    /\ cache_file /\ disk.exists /\ disk.readable
    /\ disk.qobjs # last.pre.qobjs.v
    /\ qobjs.v # disk.qobjs

-----------------------------------------------------------------------------
(* Statements about calls with try_reusing_qobjs off (CfgSpec) *)

\* the numbers of experiments of the chunks q, chunk by chunk
SlotCounts(q) == [c \in DOMAIN q |-> Len(q[c].experiments)]

\* C31 as claimed: with try_reusing_qobjs off a load_qobj_from_cache call leaves the
\* cache with the chunks and the experiments per chunk it had in memory before the call,
\* and fails when memory held no such chunk or fewer experiments than circuits.
C31_NoReuseKeepsStructure ==
    (IsLoad /\ ~try_reusing_qobjs) =>
        /\ NumChunks(qobjs) = NumChunks(last.pre.qobjs)
        /\ (~qobjs.none /\ ~last.pre.qobjs.none) =>
               SlotCounts(qobjs.v) = SlotCounts(last.pre.qobjs.v)
        /\ last.chunk >= NumChunks(last.pre.qobjs) => Failed

\* C31 as amended: with try_reusing_qobjs off a load_qobj_from_cache call leaves the
\* cache with the chunks, the experiments per chunk and the mapping lists it had once
\* line 152 had loaded the cache file into an unset cache (if there is a file to load),
\* whether it returns or raises; it raises and returns no job when that cache holds no
\* chunk of the index asked for or fewer experiments than circuits.
C31_NoReuseKeepsLoadedStructure ==
    (IsLoad /\ ~try_reusing_qobjs) =>
        /\ NumChunks(qobjs) = NumFound
        /\ NumFound >= 1 => SlotCounts(qobjs.v) = SlotCounts(FoundQobjs)
        /\ mappings = Found.mappings
        /\ mheap = Found.mheap
        /\ last.chunk >= NumFound => Failed
        /\ (last.chunk < NumFound /\ last.num > SlotsFound) => Failed

\* reuse is off, chunk 0 has one experiment, and the call on it brought two circuits,
\* the first of which it patched before it raised
C31_Witness ==
    /\ IsLoad /\ ~try_reusing_qobjs /\ Failed
    /\ NumFound >= 1 /\ last.chunk = 0
    /\ SlotsFound = 1 /\ last.num = 2
    /\ At(qobjs.v, 0) # At(FoundQobjs, 0)

-----------------------------------------------------------------------------
(* Statements about a job kept by its caller (HeldSpec) *)

\* the last call returned a job of the chunk the kept job came from, after the kept
\* job was returned
LaterPatchOfKeptChunk ==
    /\ held.live /\ held.cached
    /\ IsLoad /\ Ok /\ last.chunk = held.chunk

\* the parameters of every instruction of a job
JobParams(job) ==
    [s \in DOMAIN job |->
        [i \in DOMAIN job[s].instructions |-> ParamsOf(job[s].instructions[i])]]

\* C26: in naughty mode the job returned is made of the cached experiments themselves:
\* after a call that returned, the cached experiments of the patched slots equal the
\* job, and a job kept from an earlier call shows, in the slots a later call on the same
\* chunk patched, the experiments that later call returned.
C26_NaughtyJobSharesCache ==
    naughty_mode =>
        /\ (IsLoad /\ Ok) =>
               last.ret = Slice(At(qobjs.v, last.chunk).experiments, last.num)
        /\ LaterPatchOfKeptChunk =>
               \A s \in DOMAIN held.job \cap DOMAIN last.ret : held.job[s] = last.ret[s]

\* a kept job whose parameters a later call on the same chunk, with another circuit,
\* changed
C26_Witness ==
    /\ naughty_mode /\ LaterPatchOfKeptChunk
    /\ nops = 3
    /\ JobParams(held.job) # JobParams(held.first)
    /\ held.job[1] = last.ret[1]

\* C28: outside naughty mode a job returned by load_qobj_from_cache stays as it was
\* returned, experiments, instructions and parameters, whatever is called later.
C28_SafeJobIsolated ==
    (~naughty_mode /\ held.live) => held.job = held.first

\* a kept job of two experiments after a later call on the same chunk that wrote other
\* parameters into the cache
C28_Witness ==
    /\ ~naughty_mode /\ LaterPatchOfKeptChunk
    /\ nops = 3
    /\ Len(held.job) = 2
    /\ JobParams(last.ret) # JobParams(Slice(held.first, Len(last.ret)))
    /\ At(qobjs.v, held.chunk).experiments # last.pre.qobjs.v[held.chunk + 1].experiments

-----------------------------------------------------------------------------
(* Statements about what a returned job depends on (CfgSpec) *)

\* the chunks q with what line 184 may have left in them, for other circuits: every
\* instruction other than a snapshot has a params list, as long as its own, of other values
OtherValues(q) ==
    [c \in DOMAIN q |->
        [experiments |->
            [e \in DOMAIN q[c].experiments |->
                [q[c].experiments[e] EXCEPT !.instructions =
                    [i \in DOMAIN q[c].experiments[e].instructions |->
                        IF q[c].experiments[e].instructions[i].name = "snapshot"
                        THEN q[c].experiments[e].instructions[i]
                        ELSE [q[c].experiments[e].instructions[i] EXCEPT
                                 !.has_params = TRUE,
                                 !.params = [n \in DOMAIN @ |-> FloatNum(9)]]]]]]]

\* the call that was made, on the cache it found with other parameter values in it
OnOtherValues ==
    load_qobj_from_cache([qobjs |-> Some(OtherValues(last.pre.qobjs.v)),
                          mappings |-> last.pre.mappings, mheap |-> last.pre.mheap,
                          err |-> "ok"],
                         last.circuits, last.chunk)

\* C32: the job a successful load_qobj_from_cache returns does not depend on the
\* parameter values earlier calls left in the cache: the same call on the same chunks
\* and mappings, with other values in the cached instructions, returns the same job.
C32_JobIgnoresCachedValues ==
    (IsLoad /\ Ok /\ ~last.pre.qobjs.none) =>
        (OnOtherValues.err = "ok" /\ OnOtherValues.ret = last.ret)

\* the third call returned a job with other parameters than the cached chunk held,
\* which an earlier call had written there
C32_Witness ==
    /\ IsLoad /\ Ok /\ nops = 3
    /\ last.chunk < NumChunks(last.pre.qobjs)
    /\ JobParams(last.ret)
           # JobParams(Slice(At(last.pre.qobjs.v, last.chunk).experiments, last.num))
    /\ OtherValues(last.pre.qobjs.v) # last.pre.qobjs.v

-----------------------------------------------------------------------------
(* ConcSpec: two callers inside load_qobj_from_cache in safe mode, on chunk 0 of a   *)
(* cache that one cache_circuit call filled; a step is one of lines 152-156, the     *)
(* head of the loop for one circuit (162-171), one gate (173-184), or the copy       *)
(* (185-188)                                                                         *)

Callers == {1, 2}

Other(p) == CHOOSE q \in Callers : q # p

Active(pr) == pr.at \in {"begin", "circ", "gate", "finish"}

ConcInit ==
    /\ InitWith(FALSE, TRUE, FALSE)
    /\ pending = NoPending
    /\ procs = [p \in Callers |-> Idle]
    /\ held = NoHeld /\ NoOperators

ConcFill ==
    /\ qobjs.none
    /\ \E circuits \in Batches, variant \in {"same", "reversed"} :
           CallCacheCircuit(Compile(circuits, variant), circuits, 0)
    /\ UNCHANGED <<pending, procs, held, operators>>

\* the globals after a step of a caller
SetGlobals(S) ==
    /\ qobjs' = S.qobjs
    /\ mappings' = S.mappings
    /\ mheap' = S.mheap
    /\ UNCHANGED <<Config, disk, last, nops, pending, held, operators>>

\* caller p moves on; a step taken while the other caller is inside the function
\* marks both calls as overlapping
Move(p, pr) ==
    LET q == Other(p)
        both == Active(procs[q])
    IN  procs' = [procs EXCEPT ![p] = [pr EXCEPT !.overlapped = @ \/ both],
                               ![q] = [@ EXCEPT !.overlapped = @ \/ both]]

Raised(pr, err) == [pr EXCEPT !.at = "raised", !.err = err]

\* where the loops of lines 158 and 172 stand after circuit circ_num's gates up to
\* gate_num are done, in the globals S
NextPosition(S, pr, circ_num, gate_num) ==
    IF circ_num >= Len(pr.circuits)
    THEN [pr EXCEPT !.at = "finish"]
    ELSE IF gate_num < NumInstructions(S, pr.chunk, circ_num)
    THEN [pr EXCEPT !.at = "gate", !.circ_num = circ_num, !.gate_num = gate_num]
    ELSE IF circ_num + 1 < Len(pr.circuits)
    THEN [pr EXCEPT !.at = "circ", !.circ_num = circ_num + 1, !.gate_num = 0]
    ELSE [pr EXCEPT !.at = "finish"]

ConcCall(p) ==
    /\ ~qobjs.none
    /\ procs[p].at = "idle"
    /\ \E circuits \in Batches :
           Move(p, [procs[p] EXCEPT !.at = "begin", !.circuits = circuits, !.chunk = 0])
    /\ UNCHANGED <<qobjs, mappings, mheap, Config, disk, last, nops, pending, held, operators>>

ConcBegin(p) ==
    /\ procs[p].at = "begin"
    /\ LET S == load_begin(LoadGlobals, procs[p].chunk)
       IN  /\ SetGlobals(S)
           /\ Move(p, IF S.err # "ok" THEN Raised(procs[p], S.err)
                      ELSE [procs[p] EXCEPT !.at = "circ", !.circ_num = 0])

ConcCirc(p) ==
    /\ procs[p].at = "circ"
    /\ LET pr == procs[p]
           S == load_circ(LoadGlobals, pr.circuits, pr.chunk, pr.circ_num)
       IN  /\ SetGlobals(S)
           /\ Move(p, IF S.err # "ok" THEN Raised(pr, S.err)
                      ELSE NextPosition(S, pr, pr.circ_num, 0))

ConcGate(p) ==
    /\ procs[p].at = "gate"
    /\ LET pr == procs[p]
           S == load_gate(LoadGlobals, pr.circuits, pr.chunk, pr.circ_num, pr.gate_num)
       IN  /\ SetGlobals(S)
           /\ Move(p, IF S.err # "ok" THEN Raised(pr, S.err)
                      ELSE NextPosition(S, pr, pr.circ_num, pr.gate_num + 1))

ConcFinish(p) ==
    /\ procs[p].at = "finish"
    /\ LET pr == procs[p]
           S == load_finish(LoadGlobals, pr.circuits, pr.chunk)
       IN  /\ Move(p, IF S.err # "ok" THEN Raised(pr, S.err)
                      ELSE [pr EXCEPT !.at = "done", !.ret = S.ret])
           /\ UNCHANGED <<qobjs, mappings, mheap, Config, disk, last, nops, pending, held, operators>>

ConcCalls == \E p \in Callers : ConcCall(p)
ConcBegins == \E p \in Callers : ConcBegin(p)
ConcCircs == \E p \in Callers : ConcCirc(p)
ConcGates == \E p \in Callers : ConcGate(p)
ConcFinishes == \E p \in Callers : ConcFinish(p)

ConcNext == ConcFill \/ ConcCalls \/ ConcBegins \/ ConcCircs \/ ConcGates \/ ConcFinishes

ConcSpec == ConcInit /\ [][ConcNext]_vars

-----------------------------------------------------------------------------
(* PairSpec: the two callers in safe mode on a cache of two chunks, caller 1 on   *)
(* chunk 0 and caller 2 on chunk 1; chunk 1 was cached by cache_circuit or made   *)
(* from chunk 0 by an earlier load_qobj_from_cache call (lines 154-156)           *)

ChunkOf(p) == p - 1

PairInit ==
    /\ \E reusing \in BOOLEAN : InitWith(FALSE, reusing, FALSE)
    /\ pending = NoPending
    /\ procs = [p \in Callers |-> Idle]
    /\ held = NoHeld /\ NoOperators

\* the batches of one circuit
Singles == {circuits \in Batches : Len(circuits) = 1}

PairFill ==
    /\ qobjs.none
    /\ \E circuits \in Batches : CallCacheCircuit(Compile(circuits, "same"), circuits, 0)
    /\ UNCHANGED <<pending, procs, held, operators>>

PairFillSecond ==
    /\ NumChunks(qobjs) = 1
    /\ \E circuits \in Singles : CallCacheCircuit(Compile(circuits, "same"), circuits, 1)
    /\ UNCHANGED <<pending, procs, held, operators>>

PairDuplicate ==
    /\ NumChunks(qobjs) = 1
    /\ try_reusing_qobjs
    /\ \E circuits \in Singles : CallLoadQobjFromCache(circuits, 1)
    /\ UNCHANGED <<pending, procs, held, operators>>

PairCall(p) ==
    /\ NumChunks(qobjs) = 2
    /\ procs[p].at = "idle"
    /\ \E circuits \in Batches :
           Move(p, [procs[p] EXCEPT !.at = "begin", !.circuits = circuits,
                                    !.chunk = ChunkOf(p)])
    /\ UNCHANGED <<qobjs, mappings, mheap, Config, disk, last, nops, pending, held, operators>>

PairCalls == \E p \in Callers : PairCall(p)

PairNext ==
    \/ PairFill \/ PairFillSecond \/ PairDuplicate \/ PairCalls
    \/ ConcBegins \/ ConcCircs \/ ConcGates \/ ConcFinishes

PairSpec == PairInit /\ [][PairNext]_vars

-----------------------------------------------------------------------------
(* Statements about callers inside load_qobj_from_cache (ConcSpec, PairSpec) *)

\* the job caller p got holds the parameters of p's own circuits
OwnJob(p) ==
    /\ Len(procs[p].ret) = Len(procs[p].circuits)
    /\ ParamsFrom(procs[p].ret, procs[p].circuits, procs[p].chunk)

\* C9 as claimed: two safe-mode calls on the same chunk, interleaved in any way, each
\* return a job whose parameters all come from the caller's own circuits.
C9_InterleavedPatchesOwnJobs ==
    \A p \in Callers : procs[p].at = "done" => OwnJob(p)

\* C9 as amended: two safe-mode calls on the same chunk each return a job whose
\* parameters all come from the caller's own circuits when neither call runs while
\* the other is inside the function.
C9_SeparatePatchesOwnJobs ==
    \A p \in Callers : (procs[p].at = "done" /\ ~procs[p].overlapped) => OwnJob(p)

\* both callers returned, one after the other, with different circuits and jobs
C9_Witness ==
    /\ \A p \in Callers : procs[p].at = "done" /\ ~procs[p].overlapped
    /\ procs[1].circuits # procs[2].circuits
    /\ procs[1].ret # procs[2].ret
    /\ Len(procs[1].ret) = 2

\* where caller p is in the function
Position(p) == <<procs[p].at, procs[p].circ_num, procs[p].gate_num>>

\* caller p, inside the function, takes a step
Steps(p) == Active(procs[p]) /\ Position(p)' # Position(p)

\* a step of a caller leaves what is stored under the other caller's chunk index
OtherChunkKept ==
    \A p \in Callers :
        Steps(p) => StoredUnder(Cache, ChunkOf(Other(p)))' = StoredUnder(Cache, ChunkOf(Other(p)))

\* a caller that returned got the parameters of its own circuits
PairOwnJobs == \A p \in Callers : procs[p].at = "done" => OwnJob(p)

\* C24: two safe-mode load_qobj_from_cache calls on two different cached chunks,
\* interleaved in any way, each return the job of the caller's own circuits, and no step
\* of either changes the qobj or the list of mappings under the other's chunk index.
C24_DistinctChunksDoNotInterfere == []PairOwnJobs /\ [][OtherChunkKept]_vars

-----------------------------------------------------------------------------
(* ExpSpec: one AerPauliExpectation object (expectation_values/                 *)
(* aer_pauli_expectation.py), constructed and then used through its operator and *)
(* state setters and compute_expectation                                         *)

\* the variables of the circuit cache, which the operator classes never touch
cachevars == <<qobjs, mappings, mheap, Config, disk, last, pending, procs, held>>

\* Pauli observables, and the states: two circuits and a dict
ExpOperators == {"Z", "X"}
ExpStates == {"circuit1", "circuit2", "dict1"}

Option(S) == {None} \cup {Some(x) : x \in S}

\* state.get_primitives(): a StateFnCircuit holds an Instruction
get_primitives(state) ==
    IF state \in {"circuit1", "circuit2"} THEN {"Instruction"} ELSE {"Dict"}

\* lines 72-96: the snapshot measurement of self._operator
expectation_op(operator) == [snapshot_of |-> operator]

\* line 105: snapshot_meas.compose(self.state).reduce()
BuildSnapshot(operator, state) == [meas |-> expectation_op(operator), state |-> state]

\* lines 33-42
NewExpectation(operator, state) ==
    [made |-> TRUE, operator |-> operator, state |-> state, snapshot_op |-> None,
     call |-> "__init__", arg |-> None, pre |-> None, err |-> "ok", ret |-> None]

\* the operator set with the snapshot operator left in place
operator_setter_keeps_snapshot(E, operator) == [E EXCEPT !.operator = operator]

\* lines 50-53
operator_setter(E, operator) == [E EXCEPT !.operator = operator, !.snapshot_op = None]

\* the state set with the snapshot operator left in place
state_setter_keeps_snapshot(E, state) == [E EXCEPT !.state = state]

\* lines 60-63
state_setter(E, state) == [E EXCEPT !.state = state, !.snapshot_op = None]

\* lines 103-115, once the state is stored
compute_stored(E) ==
    IF E.state.none THEN [E EXCEPT !.err = "AttributeError"]
    ELSE IF "Instruction" \in get_primitives(E.state.v)
    THEN IF E.snapshot_op.none /\ E.operator.none
         THEN [E EXCEPT !.err = "AttributeError"]
         ELSE IF E.snapshot_op.none
         THEN [E EXCEPT !.snapshot_op = Some(BuildSnapshot(E.operator.v, E.state.v)),
                        !.ret = Some([by |-> "snapshot",
                                      of |-> BuildSnapshot(E.operator.v, E.state.v)])]
         ELSE [E EXCEPT !.ret = Some([by |-> "snapshot", of |-> E.snapshot_op.v])]
    ELSE [E EXCEPT !.ret = Some([by |-> "eval",
                                 of |-> [meas |-> E.operator, state |-> E.state.v]])]

\* lines 98-115: a state given and not equal to the stored one goes through the setter
compute_expectation(E, state) ==
    compute_stored(IF ~state.none /\ state # E.state THEN state_setter(E, state) ELSE E)

\* the object as a call finds it: the record of the call before is wiped
Called(call, arg) ==
    [expectation EXCEPT !.call = call, !.arg = arg, !.pre = expectation.snapshot_op,
                        !.err = "ok", !.ret = None]

ExpNew ==
    /\ ~expectation.made
    /\ \E operator \in Option(ExpOperators), state \in Option(ExpStates) :
           expectation' = NewExpectation(operator, state)
    /\ UNCHANGED <<cachevars, nops, composition>>

ExpSetOperator ==
    /\ expectation.made /\ nops < MaxOps
    /\ \E operator \in Option(ExpOperators) :
           expectation' = operator_setter(Called("operator", operator), operator)
    /\ nops' = nops + 1
    /\ UNCHANGED <<cachevars, composition>>

ExpSetState ==
    /\ expectation.made /\ nops < MaxOps
    /\ \E state \in Option(ExpStates) :
           expectation' = state_setter(Called("state", state), state)
    /\ nops' = nops + 1
    /\ UNCHANGED <<cachevars, composition>>

ExpCompute ==
    /\ expectation.made /\ nops < MaxOps
    /\ \E state \in Option(ExpStates) :
           expectation' = compute_expectation(Called("compute_expectation", state), state)
    /\ nops' = nops + 1
    /\ UNCHANGED <<cachevars, composition>>

ExpInit == InitWith(FALSE, TRUE, FALSE) /\ pending = NoPending /\ procs = NoProcs /\ held = NoHeld /\ NoOperators

ExpNext == ExpNew \/ ExpSetOperator \/ ExpSetState \/ ExpCompute

ExpSpec == ExpInit /\ [][ExpNext]_vars

\* C33: a snapshot operator the object holds was built from the operator and the state
\* it holds now: the two setters leave none, compute_expectation with a state stores
\* that state, and a result obtained through a snapshot operator comes from one built
\* from the operator and the state held.
C33_SnapshotNeverStale ==
    expectation.made =>
        /\ ~expectation.snapshot_op.none =>
               /\ ~expectation.operator.none /\ ~expectation.state.none
               /\ expectation.snapshot_op.v
                      = BuildSnapshot(expectation.operator.v, expectation.state.v)
        /\ expectation.call \in {"operator", "state"} => expectation.snapshot_op.none
        /\ (expectation.call = "compute_expectation" /\ ~expectation.arg.none) =>
               expectation.state = expectation.arg
        /\ (~expectation.ret.none /\ expectation.ret.v.by = "snapshot") =>
               expectation.ret.v.of
                   = BuildSnapshot(expectation.operator.v, expectation.state.v)

\* compute_expectation with another state than the stored one, on an object that held
\* a snapshot operator, which it built anew
C33_Witness ==
    /\ expectation.made
    /\ expectation.call = "compute_expectation" /\ expectation.err = "ok"
    /\ ~expectation.arg.none
    /\ ~expectation.pre.none /\ ~expectation.snapshot_op.none
    /\ expectation.pre # expectation.snapshot_op

\* ---------------------------------------------------------------------------
\* OpComposition (op_composition.py): the governing state is the object's oplist
\* and coeff.  CompSpec constructs one composition and evaluates it.
\* ---------------------------------------------------------------------------

\* the operators of an oplist: a primitive with a coefficient
CompPrimitives == {"X", "Z"}
CompCoeffs == {1, 2}
CompOps == [primitive : CompPrimitives, coeff : CompCoeffs]
CompOplists == {<<a>> : a \in CompOps} \cup {<<a, b>> : a \in CompOps, b \in CompOps}

\* the coefficient of the composition, and what it is evaluated against
CompOwnCoeffs == {1, 2, 3}
CompFronts == {"Zero"}

\* what an evaluation handles: a coefficient on a chain of primitives
OpValue(op) == [coeff |-> op.coeff, chain |-> <<op.primitive>>]
FrontValue(front) == [coeff |-> 1, chain |-> <<front>>]

\* line 109, op * coeff: a new operator with the coefficient multiplied
mul(op, coeff) == [op EXCEPT !.coeff = op.coeff * coeff]

\* lines 99-105, l.eval(r): linear in both coefficients
tree_recursive_eval(r, l) == [coeff |-> l.coeff * r.coeff, chain |-> l.chain \o r.chain]

\* line 112, reduce(function, sequence): function(...function(s[1], s[2])..., s[n])
RECURSIVE reduce_from(_, _, _)
reduce_from(acc, s, i) ==
    IF i > Len(s) THEN acc ELSE reduce_from(tree_recursive_eval(acc, s[i]), s, i + 1)

reduce(s) == reduce_from(s[1], s, 2)

\* lines 30-40: the oplist and the coefficient as given
NewComposition(oplist, coeff) ==
    [made |-> TRUE, oplist |-> oplist, coeff |-> coeff,
     oplist0 |-> oplist, coeff0 |-> coeff,
     evals |-> 0, front |-> None, ret |-> None,
     first |-> [f \in Option(CompFronts) |-> None]]

\* lines 107-109: eval_list is the object's oplist itself, and its first element
\* is replaced by the product in that list
eval_list_multiplied(C) == [C.oplist EXCEPT ![1] = mul(C.oplist[1], C.coeff)]

\* line 110: the front, when there is one, at the end of a new list
eval_list_with(eval_list, front) ==
    IF ~front.none THEN eval_list \o <<FrontValue(front.v)>> ELSE eval_list

\* lines 107-112: the result, and the object after the call
eval_result(C, front) ==
    reduce(Reverse(eval_list_with([i \in DOMAIN eval_list_multiplied(C) |->
                                       OpValue(eval_list_multiplied(C)[i])], front)))

eval(C, front) ==
    [C EXCEPT !.oplist = eval_list_multiplied(C),
              !.evals = C.evals + 1,
              !.front = front,
              !.ret = Some(eval_result(C, front)),
              !.first = [C.first EXCEPT ![front] =
                            IF C.first[front].none THEN Some(eval_result(C, front))
                            ELSE C.first[front]]]

CompNew ==
    /\ ~composition.made
    /\ \E oplist \in CompOplists, coeff \in CompOwnCoeffs :
           composition' = NewComposition(oplist, coeff)
    /\ UNCHANGED <<cachevars, nops, expectation>>

CompEval ==
    /\ composition.made /\ nops < MaxOps
    /\ \E front \in Option(CompFronts) : composition' = eval(composition, front)
    /\ nops' = nops + 1
    /\ UNCHANGED <<cachevars, expectation>>

CompInit == InitWith(FALSE, TRUE, FALSE) /\ pending = NoPending /\ procs = NoProcs /\ held = NoHeld /\ NoOperators

CompNext == CompNew \/ CompEval

CompSpec == CompInit /\ [][CompNext]_vars

\* C34: eval leaves the composition as it was constructed: after any number of
\* eval calls the oplist and the coeff are those given to the constructor, and an
\* eval against an input the composition was evaluated against before returns what
\* the first such eval returned, whatever the coeff.
C34_EvalLeavesCompositionUnchanged ==
    (composition.made /\ composition.evals > 0) =>
        /\ composition.oplist = composition.oplist0
        /\ composition.coeff = composition.coeff0
        /\ composition.ret = composition.first[composition.front]

====
